---- MODULE Spec2Model ----
(***************************************************************************)
(* Model of src/project.py: the drowsiness monitor's frame loop.           *)
(*                                                                         *)
(* The script is one sequential process.  Its state is the position in     *)
(* the script (pc), the variables ret and faces, the position of the for   *)
(* loop (idx), the camera handle cap, and the audio engine                 *)
(* (pygame.mixer.music), whose playing state is the AlarmState of the      *)
(* specification.  The external collaborators (camera, face detector,      *)
(* landmark predictor, keyboard, OS interrupt) are inputs drawn from small *)
(* sets.  The calls the script makes on them are counted, so that "how     *)
(* many times" and "in which order" can be stated.                         *)
(*                                                                         *)
(* A KeyboardInterrupt can be raised between any two statements, and when  *)
(* a call returns, before its result is stored.  Every step below is       *)
(* therefore one call or one store or test, and the interrupt is enabled   *)
(* between all of them.  The initial state is the entry of the try block.  *)
(***************************************************************************)
EXTENDS Integers, Sequences, FiniteSets

VARIABLES
    pc,        \* position in the script: the statement about to run
    ret,       \* line 22: ret of the last cap.read(): "unbound", "True", "False"
    faces,     \* line 27: the detector's result last stored in faces
    idx,       \* line 29: position of "for face in faces" (1-based)
    alarm,     \* audio engine: "Silent" or "Sounding" (music playing)
    cam,       \* camera handle: "open" or "released"
    exitPath,  \* how the try block was left: "none" (still inside), "readfail",
               \* "quit", "interrupt", or the exception that propagates
    late,      \* a KeyboardInterrupt was raised after the try block was left
    reads,     \* number of cap.read() calls
    detects,   \* number of detector(gray) calls
    predicts,  \* number of predictor(gray, face) calls
    plays,     \* number of pygame.mixer.music.play(-1) calls
    stops,     \* number of pygame.mixer.music.stop() calls
    polls,     \* number of cv2.waitKey(1) calls
    releases,  \* number of cap.release() calls
    frame0     \* the alarm and the audio calls made, as of the last cap.read()

vars == <<pc, ret, faces, idx, alarm, cam, exitPath, late,
          reads, detects, predicts, plays, stops, polls, releases, frame0>>

----------------------------------------------------------------------------
(* Bounds of the model *)

\* the camera delivers at most MaxFrames good frames, then reports ok = false
MaxFrames == 2
\* the detector returns at most MaxFaces faces per frame
MaxFaces == 2
\* number of points of a malformed (too short) landmark set
ShortParts == 40

(* Program constants *)

\* line 16: the closure threshold
THRESHOLD == 15
\* line 11: the 68-point landmark scheme, indices 0..67
NumParts == 68
\* line 51: ord('q')
ORD_Q == 113
\* line 51: the mask 0xFF, applied as key mod 256
KEY_MASK == 256

----------------------------------------------------------------------------
(* Inputs *)

\* offsets of a contour's second point from its first, by their length:
\* <<0, 10>> is 10, <<9, 12>> is 15, <<-12, -16>> is 20
P36 == <<30, 40>>
P42 == <<70, 40>>

VAdd(p, q) == <<p[1] + q[1], p[2] + q[2]>>
VSub(p, q) == <<p[1] - q[1], p[2] - q[2]>>

\* what predictor(gray, face) returns for a face: n points, indices 0..n-1
Landmarks(n, dl, dr) ==
    [ num_parts |-> n,
      part |-> [ i \in 0..(n - 1) |->
                   IF i = 36 THEN P36
                   ELSE IF i = 37 THEN VAdd(P36, dl)
                   ELSE IF i = 42 THEN P42
                   ELSE IF i = 43 THEN VAdd(P42, dr)
                   ELSE <<i, i>> ] ]

\* the offsets of the two eyes of the well-formed faces: both below the
\* threshold, one eye exactly at it (left, right), both above it
EyePairs ==
    { << <<0, 10>>, <<0, 10>> >>,
      << <<9, 12>>, <<0, 10>> >>,
      << <<0, 10>>, <<9, 12>> >>,
      << <<-12, -16>>, <<-12, -16>> >> }

\* a face region is identified with the landmarks the predictor finds in it;
\* one face has too few landmarks
FaceSet ==
    { Landmarks(NumParts, e[1], e[2]) : e \in EyePairs }
    \cup { Landmarks(ShortParts, <<0, 10>>, <<0, 10>>) }

RECURSIVE SeqsUpTo(_, _)
SeqsUpTo(S, n) ==
    IF n = 0 THEN { <<>> }
    ELSE LET shorter == SeqsUpTo(S, n - 1)
         IN  shorter \cup { Append(s, x) : s \in { t \in shorter : Len(t) = n - 1 }, x \in S }

FrameSet == SeqsUpTo(FaceSet, MaxFaces)

\* cv2.waitKey(1): -1 when no key was pressed, otherwise a key code
Keys == { -1, 97, 113, 369 }

----------------------------------------------------------------------------
(* eyes_closed, lines 13-16 *)

\* floor of the square root
ISqrt(n) == CHOOSE r \in 0..n : r * r <= n /\ n < (r + 1) * (r + 1)

\* np.linalg.norm(v) of an integer 2-vector, as its integer part and whether
\* the root is exact
norm(v) ==
    LET s == v[1] * v[1] + v[2] * v[2]
        r == ISqrt(s)
    IN  [ floor |-> r, exact |-> (r * r = s) ]

\* x < t for the real x with integer part x.floor, t an integer
LessThan(x, t) == x.floor < t

\* eyes_closed measuring from the second point to the third
eyes_closed_23(eye_points) ==
    LET left_eye  == eye_points[2]
        right_eye == eye_points[3]
    IN  LessThan(norm(VSub(left_eye, right_eye)), THRESHOLD)

\* eyes_closed with the comparison written <= instead of <
eyes_closed_le(eye_points) ==
    LET left_eye  == eye_points[1]
        right_eye == eye_points[2]
        x == norm(VSub(left_eye, right_eye))
    IN  x.floor < THRESHOLD \/ (x.floor = THRESHOLD /\ x.exact)

eyes_closed(eye_points) ==
    LET left_eye  == eye_points[1]
        right_eye == eye_points[2]
    IN  LessThan(norm(VSub(left_eye, right_eye)), THRESHOLD)

----------------------------------------------------------------------------
(* Geometry of a face, lines 30-43 *)

\* landmarks.part(i) raises IndexError unless i < num_parts; lines 31-43 read
\* parts 36..47
HasEyeParts(landmarks) == \A i \in 36..47 : i < landmarks.num_parts

\* lines 31-36
left_eye(landmarks) == [ k \in 1..6 |-> landmarks.part[35 + k] ]

\* lines 38-43
right_eye(landmarks) == [ k \in 1..6 |-> landmarks.part[41 + k] ]

\* the condition of line 45 written with "or" instead of "and"
Drowsy_or(landmarks) ==
    eyes_closed(left_eye(landmarks)) \/ eyes_closed(right_eye(landmarks))

\* line 45: the condition of the if statement
Drowsy(landmarks) ==
    eyes_closed(left_eye(landmarks)) /\ eyes_closed(right_eye(landmarks))

\* line 51: cv2.waitKey(1) & 0xFF == ord('q')
IsQuit(k) == (k % KEY_MASK) = ORD_Q

----------------------------------------------------------------------------
(* The script *)

Snapshot ==
    [ alarm |-> alarm, plays |-> plays, stops |-> stops ]

Init ==
    /\ pc = "read"
    /\ ret = "unbound"
    /\ faces = <<>>
    /\ idx = 1
    /\ alarm = "Silent"
    /\ cam = "open"
    /\ exitPath = "none"
    /\ late = FALSE
    /\ reads = 0
    /\ detects = 0
    /\ predicts = 0
    /\ plays = 0
    /\ stops = 0
    /\ polls = 0
    /\ releases = 0
    /\ frame0 = Snapshot

\* the value of ret for a read that reported ok
RetOf(ok) == IF ok THEN "True" ELSE "False"

\* lines 23-24: if not ret: break
AfterRead(r) == IF r = "True" THEN "detect" ELSE "break"

\* line 29 with the for loop never entered
LoopEntry_skip(fs) == "show"

\* line 29 with an empty detection treated as a drowsy face
LoopEntry_alarm(fs) == IF Len(fs) = 0 THEN "play" ELSE "face"

\* line 29: entering "for face in faces"
LoopEntry(fs) == IF Len(fs) = 0 THEN "show" ELSE "face"

\* the for loop left after its first face
Advance_break ==
    /\ idx' = idx + 1
    /\ pc' = "show"

\* line 29: the next iteration of "for face in faces", or line 49 after the last
Advance ==
    /\ idx' = idx + 1
    /\ pc' = IF idx + 1 > Len(faces) THEN "show" ELSE "face"

\* lines 45-47 with an else branch that stops the music
NotDrowsy_reset ==
    /\ alarm' = "Silent"
    /\ stops' = stops + 1
    /\ UNCHANGED plays

\* lines 45-47: the if statement has no else branch; nothing is sent to the
\* audio engine for a face that is not drowsy
NotDrowsy == UNCHANGED <<alarm, plays, stops>>

\* line 47: pygame.mixer.music.play(-1) starts (or restarts) looped playback
music_play ==
    /\ plays' = plays + 1
    /\ alarm' = "Sounding"
    /\ UNCHANGED stops

\* line 57: cap.release()
cap_release ==
    /\ cam' = "released"
    /\ releases' = releases + 1

\* line 54: an exception raised inside the try block leaves the block; the
\* except clause is tested next, whatever the exception is
Unwind == pc' = "except"

\* line 22: the call cap.read()
CapRead ==
    /\ pc = "read"
    /\ reads' = reads + 1
    /\ frame0' = Snapshot
    /\ pc' = "store_ret"
    /\ UNCHANGED <<ret, faces, idx, alarm, cam, exitPath, late,
                   detects, predicts, plays, stops, polls, releases>>

\* line 22: ret, frame = <the result of the call>
StoreRet ==
    /\ pc = "store_ret"
    /\ \E ok \in (IF reads <= MaxFrames THEN BOOLEAN ELSE {FALSE}) :
          ret' = RetOf(ok)
    /\ pc' = "test_ret"
    /\ UNCHANGED <<faces, idx, alarm, cam, exitPath, late,
                   reads, detects, predicts, plays, stops, polls, releases, frame0>>

\* lines 23-24
TestRet ==
    /\ pc = "test_ret"
    /\ pc' = AfterRead(ret)
    /\ exitPath' = IF ret = "True" THEN exitPath ELSE "readfail"
    /\ UNCHANGED <<ret, faces, idx, alarm, cam, late,
                   reads, detects, predicts, plays, stops, polls, releases, frame0>>

\* lines 26-27: cv2.cvtColor and the call detector(gray)
DetectCall ==
    /\ pc = "detect"
    /\ detects' = detects + 1
    /\ pc' = "store_faces"
    /\ UNCHANGED <<ret, faces, idx, alarm, cam, exitPath, late,
                   reads, predicts, plays, stops, polls, releases, frame0>>

\* line 27: the detector raises
DetectorError ==
    /\ pc = "detect"
    /\ detects' = detects + 1
    /\ Unwind
    /\ exitPath' = "detector_error"
    /\ UNCHANGED <<ret, faces, idx, alarm, cam, late,
                   reads, predicts, plays, stops, polls, releases, frame0>>

\* line 27: faces = <the result of the call>
StoreFaces ==
    /\ pc = "store_faces"
    /\ \E fs \in FrameSet : faces' = fs
    /\ pc' = "for"
    /\ UNCHANGED <<ret, idx, alarm, cam, exitPath, late,
                   reads, detects, predicts, plays, stops, polls, releases, frame0>>

\* line 29: the for loop is entered
ForEnter ==
    /\ pc = "for"
    /\ idx' = 1
    /\ pc' = LoopEntry(faces)
    /\ UNCHANGED <<ret, faces, alarm, cam, exitPath, late,
                   reads, detects, predicts, plays, stops, polls, releases, frame0>>

\* line 30: the call predictor(gray, face)
PredictorCall ==
    /\ pc = "face"
    /\ predicts' = predicts + 1
    /\ pc' = "eyes"
    /\ UNCHANGED <<ret, faces, idx, alarm, cam, exitPath, late,
                   reads, detects, plays, stops, polls, releases, frame0>>

\* line 30: the predictor raises
PredictorError ==
    /\ pc = "face"
    /\ predicts' = predicts + 1
    /\ Unwind
    /\ exitPath' = "predictor_error"
    /\ UNCHANGED <<ret, faces, idx, alarm, cam, late,
                   reads, detects, plays, stops, polls, releases, frame0>>

\* lines 30-45: landmarks is stored, the two contours are built and the if
\* statement decides (none of this changes anything the model observes
\* before the decision)
TestEyes ==
    /\ pc = "eyes"
    /\ LET landmarks == faces[idx]
       IN  IF ~HasEyeParts(landmarks)
           THEN \* IndexError from landmarks.part(i)
                /\ Unwind
                /\ exitPath' = "index_error"
                /\ UNCHANGED <<alarm, plays, stops>>
           ELSE /\ IF Drowsy(landmarks)
                   THEN /\ pc' = "play"
                        /\ UNCHANGED <<alarm, plays, stops>>
                   ELSE /\ pc' = "next"
                        /\ NotDrowsy
                /\ UNCHANGED exitPath
    /\ UNCHANGED <<ret, faces, idx, cam, late,
                   reads, detects, predicts, polls, releases, frame0>>

\* lines 46-47
Play ==
    /\ pc = "play"
    /\ music_play
    /\ pc' = "next"
    /\ UNCHANGED <<ret, faces, idx, cam, exitPath, late,
                   reads, detects, predicts, polls, releases, frame0>>

\* line 29, after the body of the for loop
ForNext ==
    /\ pc = "next"
    /\ Advance
    /\ UNCHANGED <<ret, faces, alarm, cam, exitPath, late,
                   reads, detects, predicts, plays, stops, polls, releases, frame0>>

\* lines 49 and 51: cv2.imshow and the call cv2.waitKey(1)
PollCall ==
    /\ pc = "show"
    /\ polls' = polls + 1
    /\ pc' = "test_key"
    /\ UNCHANGED <<ret, faces, idx, alarm, cam, exitPath, late,
                   reads, detects, predicts, plays, stops, releases, frame0>>

\* lines 51-52: the test of the key that was returned
TestKey ==
    /\ pc = "test_key"
    /\ \E k \in Keys :
          /\ IF IsQuit(k)
             THEN pc' = "break" /\ exitPath' = "quit"
             ELSE pc' = "read" /\ UNCHANGED exitPath
    /\ UNCHANGED <<ret, faces, idx, alarm, cam, late,
                   reads, detects, predicts, plays, stops, polls, releases, frame0>>

\* the positions inside the try block
TryBody ==
    {"read", "store_ret", "test_ret", "detect", "store_faces", "for",
     "face", "eyes", "play", "next", "show", "test_key"}

\* line 54: KeyboardInterrupt raised inside the try block
Interrupt ==
    /\ pc \in TryBody
    /\ pc' = "except"
    /\ exitPath' = "interrupt"
    /\ UNCHANGED <<ret, faces, idx, alarm, cam, late,
                   reads, detects, predicts, plays, stops, polls, releases, frame0>>

\* lines 54-55: the except clause is tested against the exception that
\* left the try block.  A KeyboardInterrupt matches and is handled by pass;
\* any other exception does not match and stays pending.  Either way the
\* finally block comes next.
ExceptPass ==
    /\ pc = "except"
    /\ pc' = "finally"
    /\ UNCHANGED <<ret, faces, idx, alarm, cam, exitPath, late,
                   reads, detects, predicts, plays, stops, polls, releases, frame0>>

\* lines 24 and 52: the jump from a break to the finally block
BreakJump ==
    /\ pc = "break"
    /\ pc' = "finally"
    /\ UNCHANGED <<ret, faces, idx, alarm, cam, exitPath, late,
                   reads, detects, predicts, plays, stops, polls, releases, frame0>>

\* a KeyboardInterrupt raised once the try body was left and before the
\* finally block is entered: while the except clause is tested or the handler
\* runs (lines 54-55), or on the jump from a break (lines 24, 52).  It is not
\* caught by line 54, but this is still inside the try statement: the
\* finally block runs in full and the interrupt propagates
InterruptHandler ==
    /\ pc \in {"except", "break"}
    /\ pc' = "finally"
    /\ late' = TRUE
    /\ UNCHANGED <<ret, faces, idx, alarm, cam, exitPath,
                   reads, detects, predicts, plays, stops, polls, releases, frame0>>

\* line 57
Finally ==
    /\ pc = "finally"
    /\ cap_release
    /\ pc' = "destroy"
    /\ UNCHANGED <<ret, faces, idx, alarm, exitPath, late,
                   reads, detects, predicts, plays, stops, polls, frame0>>

\* line 58: cv2.destroyAllWindows(), then the end of the script
DestroyWindows ==
    /\ pc = "destroy"
    /\ pc' = "done"
    /\ UNCHANGED <<ret, faces, idx, alarm, cam, exitPath, late,
                   reads, detects, predicts, plays, stops, polls, releases, frame0>>

\* lines 57-58: KeyboardInterrupt raised inside the finally block: the
\* rest of the block is skipped and the exception ends the script
InterruptCleanup ==
    /\ pc \in {"finally", "destroy"}
    /\ pc' = "done"
    /\ late' = TRUE
    /\ UNCHANGED <<ret, faces, idx, alarm, cam, exitPath,
                   reads, detects, predicts, plays, stops, polls, releases, frame0>>

Next ==
    \/ CapRead
    \/ StoreRet
    \/ TestRet
    \/ DetectCall
    \/ DetectorError
    \/ StoreFaces
    \/ ForEnter
    \/ PredictorCall
    \/ PredictorError
    \/ TestEyes
    \/ Play
    \/ ForNext
    \/ PollCall
    \/ TestKey
    \/ Interrupt
    \/ ExceptPass
    \/ BreakJump
    \/ InterruptHandler
    \/ Finally
    \/ DestroyWindows
    \/ InterruptCleanup

Spec == Init /\ [][Next]_vars

----------------------------------------------------------------------------
(* Properties *)

\* squared distance between the first two points of a contour
DistSq(eye_points) ==
    LET d == VSub(eye_points[1], eye_points[2])
    IN  d[1] * d[1] + d[2] * d[2]

\* both eyes of a face are classified closed
BothClosed(face) ==
    /\ HasEyeParts(face)
    /\ eyes_closed(left_eye(face))
    /\ eyes_closed(right_eye(face))

\* exactly one eye of a face is classified closed
OneClosed(face) ==
    /\ HasEyeParts(face)
    /\ eyes_closed(left_eye(face)) # eyes_closed(right_eye(face))

\* the for loop over the faces of the current frame has been left
FrameDone == pc = "show"

\* C1: a start command is never issued to the audio engine while the alarm
\* is already Sounding, so two consecutive drowsy frames give one start.
C1_StartOnlyWhenSilent == [][plays' # plays => alarm = "Silent"]_vars

\* C2: when the pipeline has shut down after the alarm was started, stop()
\* has been invoked exactly once and the alarm is Silent.
C2_StopOnceAtShutdown ==
    (pc = "done" /\ plays > 0) => (stops = 1 /\ alarm = "Silent")

\* C3: when the script has ended after the loop was left by an interrupt, a
\* failed read or the quit key, the camera has been released exactly once.
C3_ReleaseOnce ==
    (pc = "done" /\ exitPath \in {"interrupt", "readfail", "quit"})
        => releases = 1

\* C4: the alarm is Silent at startup, a start command is issued only for a
\* face whose left and right eye are both classified closed, and the alarm
\* changes only by a start command.
C4_StartOnlyWhenBothClosed ==
    /\ (alarm = "Silent" /\ plays = 0)
    /\ [][plays' # plays => (idx \in 1..Len(faces) /\ BothClosed(faces[idx]))]_vars
    /\ [][alarm' # alarm => plays' # plays]_vars

\* a frame whose first face has one eye closed and whose second face has
\* both: one start, issued for the second face only
C4_Witness ==
    /\ FrameDone
    /\ Len(faces) = 2
    /\ OneClosed(faces[1])
    /\ BothClosed(faces[2])
    /\ frame0.alarm = "Silent"
    /\ plays = 1
    /\ alarm = "Sounding"

\* C5: once Sounding the alarm stays Sounding, and no stop command is ever
\* issued, whatever the later frames show.
C5_Latch ==
    /\ [][alarm = "Sounding" => alarm' = "Sounding"]_vars
    /\ [][stops' = stops]_vars

\* a frame with a face and no drowsy face, handled while the alarm was
\* already Sounding
C5_Witness ==
    /\ FrameDone
    /\ Len(faces) > 0
    /\ \A i \in 1..Len(faces) : ~BothClosed(faces[i])
    /\ frame0.alarm = "Sounding"
    /\ alarm = "Sounding"

\* the frame in progress has no faces and is at the quit poll
ZeroFaceFrame == pc \in {"show", "test_key"} /\ Len(faces) = 0

\* C6: a frame with zero faces sends nothing to the audio engine and leaves
\* the alarm as it was, and unless the quit key or an interrupt ends the loop
\* there, the poll is followed by the read of the next frame.
C6_ZeroFaces ==
    /\ [](ZeroFaceFrame =>
            /\ alarm = frame0.alarm
            /\ plays = frame0.plays
            /\ stops = frame0.stops)
    /\ [][ZeroFaceFrame =>
            /\ alarm' = alarm /\ plays' = plays /\ stops' = stops
            /\ \/ pc = "show" /\ pc' = "test_key"
               \/ pc = "test_key" /\ pc' = "read"
               \/ exitPath' \in {"quit", "interrupt"}]_vars

\* a zero-face frame handled while the alarm was Sounding
C6_Witness ==
    /\ ZeroFaceFrame
    /\ reads = 2
    /\ alarm = "Sounding"

\* C7: an error raised by the face detector or the landmark predictor is not
\* fatal: the pipeline does not terminate because of it.
C7_DetectionErrorNotFatal ==
    exitPath \in {"detector_error", "predictor_error"}
        => pc \notin {"except", "finally", "destroy", "done"}

\* the last read that was stored reported ok = false
ReadFailed == ret = "False"

\* C8: after a failed read the loop is over (the script is on its way out of
\* the try block or past it), the alarm is as it was before the read, and
\* when the script has ended the shutdown sequence has run: the audio
\* engine has been stopped once and the camera released once.
C8_ReadFailureEndsLoop ==
    ReadFailed =>
        /\ pc \in {"test_ret", "break", "except", "finally", "destroy", "done"}
        /\ alarm = frame0.alarm
        /\ plays = frame0.plays
        /\ pc = "done" => (stops = 1 /\ releases = 1 /\ cam = "released")

\* C9: at the end of a frame every face has been evaluated, and the alarm is
\* Sounding iff it was Sounding before the frame or some face of the frame
\* has both of its own eyes closed, whatever the order of the faces.
C9_AnyFace ==
    FrameDone =>
        /\ idx = Len(faces) + 1
        /\ alarm = "Sounding" <=>
              \/ frame0.alarm = "Sounding"
              \/ \E i \in 1..Len(faces) : BothClosed(faces[i])

\* in the second frame the detector returned a face that is not drowsy and
\* then a face with both eyes closed; the alarm was Silent before the frame
C9_Witness ==
    /\ FrameDone
    /\ Len(faces) = 2
    /\ ~BothClosed(faces[1])
    /\ BothClosed(faces[2])
    /\ frame0.alarm = "Silent"
    /\ alarm = "Sounding"
    /\ reads = 2

\* C10: an eye is classified closed iff the squared distance between the
\* first two points of its contour is below 15 * 15.
C10_ClosedIffBelowThreshold ==
    \A i \in 1..Len(faces) :
        HasEyeParts(faces[i]) =>
            \A eye \in {left_eye(faces[i]), right_eye(faces[i])} :
                eyes_closed(eye) <=> DistSq(eye) < THRESHOLD * THRESHOLD

\* a face whose left eye is at distance exactly 15 and whose right eye is
\* closed went through the frame without a start command
C10_Witness ==
    /\ FrameDone
    /\ Len(faces) = 1
    /\ DistSq(left_eye(faces[1])) = THRESHOLD * THRESHOLD
    /\ DistSq(right_eye(faces[1])) < THRESHOLD * THRESHOLD
    /\ plays = 0
    /\ alarm = "Silent"

\* rearrangements of the positions 3..6 of a contour: reversed, rotated,
\* the first two swapped
TailPerms ==
    { [k \in 1..6 |-> IF k <= 2 THEN k ELSE 9 - k],
      [k \in 1..6 |-> IF k <= 2 THEN k ELSE IF k = 6 THEN 3 ELSE k + 1],
      [k \in 1..6 |-> IF k = 3 THEN 4 ELSE IF k = 4 THEN 3 ELSE k] }

\* points put in place of the points 3..6 of a contour
TailPoints == { <<0, 0>>, <<500, 500>> }

\* contours with the same first two points as eye_points and other points 3..6
ContourVariants(eye_points) ==
    { [k \in 1..6 |-> eye_points[perm[k]]] : perm \in TailPerms }
    \cup { [k \in 1..6 |-> IF k <= 2 THEN eye_points[k] ELSE q] : q \in TailPoints }

\* the landmarks of a face have been predicted, or the face has just been
\* found drowsy
AtFace == pc \in {"eyes", "play"} /\ HasEyeParts(faces[idx])

\* C11: the left contour is landmarks 36..41 and the right contour landmarks
\* 42..47, in ascending order, and the verdict of a contour is unchanged when
\* its points 3 to 6 are permuted or replaced.
C11_OnlyFirstTwoPoints ==
    AtFace =>
        LET f == faces[idx]
        IN  /\ left_eye(f) = <<f.part[36], f.part[37], f.part[38],
                               f.part[39], f.part[40], f.part[41]>>
            /\ right_eye(f) = <<f.part[42], f.part[43], f.part[44],
                                f.part[45], f.part[46], f.part[47]>>
            /\ \A eye \in {left_eye(f), right_eye(f)} :
                 \A v \in ContourVariants(eye) :
                    eyes_closed(v) = eyes_closed(eye)

\* a face found drowsy whose left contour has six different points, so that
\* every rearrangement and replacement is another contour
C11_Witness ==
    /\ pc = "play"
    /\ Cardinality({left_eye(faces[idx])[k] : k \in 1..6}) = 6
    /\ \A v \in ContourVariants(left_eye(faces[idx])) :
          /\ v # left_eye(faces[idx])
          /\ eyes_closed(v)

\* C12: the loop is left by an interrupt only between two frames, and by the
\* quit key only at the poll that ends a frame.
C12_CancelOnlyBetweenFrames ==
    [][(exitPath = "none" /\ exitPath' \in {"interrupt", "quit"})
          => pc \in {"read", "test_key"}]_vars

\* C13: a face whose landmark set has fewer than 68 points is skipped and
\* does not end the loop.
C13_MalformedLandmarksSkipped ==
    exitPath = "index_error"
        => pc \notin {"except", "finally", "destroy", "done"}

\* C14: a script that has left the loop by a failed read, the quit key or an
\* interrupt has, when it ends, released the camera.
C14_RunsUntilStopped ==
    (exitPath \in {"readfail", "quit", "interrupt"} /\ pc = "done")
        => cam = "released"

\* number of faces of the current frame with both eyes closed
DrowsyFaces == Cardinality({i \in 1..Len(faces) : BothClosed(faces[i])})

\* C15: a frame is read only when the frame before it is finished (its
\* detector call made, each of its faces handled, each start command it calls
\* for issued, its poll made), and within a frame the faces are handled one
\* after the other in the detector's order: a prediction is made for the
\* face at the loop's position, a start command is issued for that face, and
\* the position moves by one, after the face has been handled.
C15_OneFrameAtATime ==
    /\ [][reads' # reads =>
            /\ pc = "read"
            /\ reads > 0 =>
                 /\ detects = reads
                 /\ polls = reads
                 /\ idx = Len(faces) + 1
                 /\ predicts >= Len(faces)
                 /\ plays = frame0.plays + DrowsyFaces]_vars
    /\ [][predicts' # predicts => (pc = "face" /\ idx \in 1..Len(faces))]_vars
    /\ [][idx' # idx => ((pc = "next" /\ idx' = idx + 1) \/ idx' = 1)]_vars
    /\ [][plays' # plays => (pc' = "next" /\ idx' = idx /\ BothClosed(faces[idx]))]_vars

\* the second frame has been read after a first frame with two drowsy faces,
\* both of which got their start command before the read
C15_Witness ==
    /\ pc = "store_ret"
    /\ reads = 2
    /\ Len(faces) = 2
    /\ predicts = 2
    /\ frame0.plays = 2

\* the positions at which a frame has been read with ok = true and its poll
\* has not been made
BeforePoll ==
    {"detect", "store_faces", "for", "face", "eyes", "play", "next", "show"}

\* C16: a frame that was read successfully gets its poll: the loop is not
\* left between the read and the poll of the frame.
C16_OnePollPerFrame ==
    [][(pc \in BeforePoll) => (pc' \notin {"except", "finally"})]_vars

\* C17: the script ends only with the camera released, exactly once.
C17_ReleaseIsLast ==
    pc = "done" => (cam = "released" /\ releases = 1)

====
